---- MODULE Spec2Model ----
(***************************************************************************)
(* Computer Adaptive Testing engine of the question bank: the stored       *)
(* procedures create_cat_test, get_next_cat_question, submit_cat_answer    *)
(* (phase 4 migration) and submit_test_answer (phase 2 migration), with    *)
(* the tables they read and write.                                         *)
(*                                                                         *)
(* Representation.                                                         *)
(*  - A nullable SQL value is a set: {} is NULL, {v} is the value v.       *)
(*  - NUMERIC(5,2) columns (abilities, passing standard, scores) are       *)
(*    integers in hundredths.                                              *)
(*  - The unrounded NUMERIC arithmetic of the IRT functions is fixed-point *)
(*    with SC units per 1.0 (four decimals); exp() is computed from a      *)
(*    table of e^-k and a Taylor series for the fractional part.           *)
(*  - Every stored procedure is one transaction: an exception rolls back   *)
(*    all of its writes, so a rejected call changes only lastCall.         *)
(*  - Calls are atomic steps, except in the specifications of concurrent   *)
(*    submissions and of interleaved get_next_cat_question calls, where a  *)
(*    call is a transaction of several steps under READ COMMITTED: its     *)
(*    writes are held in txn until it commits, and a write that meets an   *)
(*    uncommitted write of the same row or unique key waits for that       *)
(*    transaction to end.                                                  *)
(*  - The table user_statistics and the trigger that feeds it after an     *)
(*    insert into test_results (update_statistics_on_test_result, user     *)
(*    progress tracking) are outside the model: the insert into            *)
(*    test_results is taken to fail only on the constraints of             *)
(*    test_results itself.                                                 *)
(***************************************************************************)
EXTENDS Integers, Sequences, FiniteSets, TLC

VARIABLES
    tests,                    \* table tests: id -> row
    next_test_id,             \* serial of tests.id
    test_questions,           \* table test_questions: test id -> its question ids
    test_results,             \* table test_results: set of rows
    cat_sessions,             \* table cat_sessions: sequence of rows, id = index
    cat_question_selections,  \* table cat_question_selections: sequence of rows, id = index
    user_question_status,     \* table user_question_status: set of rows
    lastCall,                 \* the last stored-procedure call and what it returned
    bank,                     \* tables questions, answers, question_difficulty_parameters
    txn                       \* the open transaction of each connection

db == <<tests, next_test_id, test_questions, test_results, cat_sessions,
        cat_question_selections, user_question_status, bank>>
vars == <<tests, next_test_id, test_questions, test_results, cat_sessions,
          cat_question_selections, user_question_status, lastCall, bank, txn>>

----------------------------------------------------------------------------
(* Bounds of the model *)

MaxSessions == 1

----------------------------------------------------------------------------
(* SQL values *)

NULL == {}
Some(v) == {v}
Val(x) == CHOOSE v \in x : TRUE

\* x <> y of SQL: true only when both sides are non-null and differ
SqlNeq(x, y) == x # NULL /\ y # NULL /\ x # y
\* x = y of SQL: true only when both sides are non-null and equal
SqlEq(x, y) == x # NULL /\ y # NULL /\ x = y

Abs(x) == IF x < 0 THEN -x ELSE x
Min2(x, y) == IF x <= y THEN x ELSE y
Max2(x, y) == IF x >= y THEN x ELSE y

\* NUMERIC division n / d for d > 0, rounded half away from zero
RDiv(n, d) ==
    IF n >= 0 THEN (2 * n + d) \div (2 * d) ELSE -((d - 2 * n) \div (2 * d))

RECURSIVE SumOver(_, _)
SumOver(f, S) ==
    IF S = {} THEN 0
    ELSE LET x == CHOOSE y \in S : TRUE IN f[x] + SumOver(f, S \ {x})

Range(seq) == {seq[i] : i \in 1..Len(seq)}

----------------------------------------------------------------------------
(* Fixed point *)

SC == 100 * 100                  \* units per 1.0 in unrounded NUMERIC values
FromCents(c) == c * 100          \* NUMERIC(5,2) -> unrounded
ToCents(x) == RDiv(x, 100)       \* unrounded -> NUMERIC(5,2), rounding to two decimals

\* e^-k for k = 0..9 in SC units; below the precision from k = 10 on
ExpNegInt(k) ==
    IF k >= 10 THEN 0
    ELSE <<10000, 3679, 1353, 498, 183, 67, 25, 9, 3, 1>>[k + 1]

\* e^-(j/10) for j = 0..9 in SC units
ExpNegTenth(j) ==
    <<10000, 9048, 8187, 7408, 6703, 6065, 5488, 4966, 4493, 4066>>[j + 1]

\* e^-f for 0 <= f < SC/10 by its Taylor series 1 - f + f^2/2 - f^3/6
ExpNegSmall(f) ==
    SC - f + (f * f + SC) \div (2 * SC) - (f * f * f + 3 * SC * SC) \div (6 * SC * SC)

\* exp(-x) for x >= 0, in SC units: e^-k * e^-(j/10) * e^-f
ExpNeg(x) ==
    RDiv(RDiv(ExpNegInt(x \div SC) * ExpNegTenth((x % SC) \div (SC \div 10)), SC)
           * ExpNegSmall(x % (SC \div 10)), SC)

----------------------------------------------------------------------------
(* The question bank: rows of questions, answers and                       *)
(* question_difficulty_parameters the three procedures read.               *)

Users == {"u1", "u2"}

\* the users who take tests; the others only call with their identity
TestTakers == {"u1"}

\* the bank of the three-question runs: questions (id -> row), answers (set of
\* rows; partial_credit and penalty_value are NUMERIC(3,2), in hundredths) and
\* question_difficulty_parameters (question_id -> row, NUMERIC(5,2) in hundredths)
MainBank ==
    [questions |->
        (1 :> [topic |-> "A", question_format |-> "Multiple Choice",
               use_partial_scoring |-> FALSE])
     @@ (2 :> [topic |-> "A", question_format |-> "Select All That Apply",
               use_partial_scoring |-> TRUE])
     @@ (3 :> [topic |-> "B", question_format |-> "Select All That Apply",
               use_partial_scoring |-> FALSE]),
     answers |->
        { [id |-> 11, question_id |-> 1, is_correct |-> TRUE,  partial_credit |-> 0,   penalty_value |-> 0],
          [id |-> 12, question_id |-> 1, is_correct |-> FALSE, partial_credit |-> 0,   penalty_value |-> 0],
          [id |-> 21, question_id |-> 2, is_correct |-> TRUE,  partial_credit |-> 100, penalty_value |-> 0],
          [id |-> 22, question_id |-> 2, is_correct |-> TRUE,  partial_credit |-> 100, penalty_value |-> 0],
          [id |-> 23, question_id |-> 2, is_correct |-> FALSE, partial_credit |-> 0,   penalty_value |-> 50],
          [id |-> 31, question_id |-> 3, is_correct |-> TRUE,  partial_credit |-> 0,   penalty_value |-> 0],
          [id |-> 32, question_id |-> 3, is_correct |-> FALSE, partial_credit |-> 0,   penalty_value |-> 0] },
     question_difficulty_parameters |->
        (1 :> [discrimination |-> 100, difficulty |-> 0,    guessing |-> 20])
     @@ (2 :> [discrimination |-> 120, difficulty |-> 50,   guessing |-> 25])
     @@ (3 :> [discrimination |-> 80,  difficulty |-> -100, guessing |-> 0])]

\* the three tables of the bank
questions == bank.questions
answers == bank.answers
question_difficulty_parameters == bank.question_difficulty_parameters

QuestionIds == DOMAIN questions

\* id::text of an answers row
IdText(id) == ToString(id)

----------------------------------------------------------------------------
(* IRT functions; arguments and results in SC units *)

\* the NUMERIC product x * y of two values in SC units, rounded to SC units:
\* RDiv(x * y, SC), multiplied by parts so that the product stays in range
MulSC(x, y) ==
    (IF (x < 0) = (y < 0) THEN 1 ELSE -1)
      * (Abs(x) * (Abs(y) \div SC) + RDiv(Abs(x) * (Abs(y) % SC), SC))

\* the clamp with the sign of its bounds exchanged
ClampLogitSwapped(logit) ==
    IF logit > 35 * SC THEN -(35 * SC)
    ELSE IF logit < -(35 * SC) THEN 35 * SC
    ELSE logit

\* IF logit > 35.0 THEN 35.0 ELSIF logit < -35.0 THEN -35.0
ClampLogit(logit) ==
    IF logit > 35 * SC THEN 35 * SC
    ELSE IF logit < -(35 * SC) THEN -(35 * SC)
    ELSE logit

\* 1 / (1 + exp(-logit)) given e = exp(-|logit|); for logit < 0 it is e / (e + 1),
\* the same value without the large intermediate exp(|logit|)
Logistic(logit, e) ==
    IF logit >= 0 THEN RDiv(SC * SC, SC + e) ELSE RDiv(SC * e, e + SC)

\* guessing + (1.0 - guessing) / (1.0 + exp(-logit))
ProbabilityAt(logit, guessing) ==
    guessing + RDiv((SC - guessing) * Logistic(logit, ExpNeg(Abs(logit))), SC)

calculate_probability(ability, discrimination, difficulty, guessing) ==
    ProbabilityAt(ClampLogit(MulSC(discrimination, ability - difficulty)), guessing)

\* the information of an item whose probability of a correct response is known
InformationAt(discrimination, guessing, probability) ==
    IF guessing > 0 /\ guessing < SC /\ probability > guessing /\ probability < SC
    THEN \* a^2 (P-c)^2 / ((1-c)^2 P (1-P)), computed as a^2 ((P-c)/(1-c))^2 / (P (1-P))
         RDiv(RDiv(RDiv(discrimination * discrimination, SC)
                     * RDiv(RDiv((probability - guessing) * SC, SC - guessing)
                              * RDiv((probability - guessing) * SC, SC - guessing), SC), SC)
                * SC,
              RDiv(probability * (SC - probability), SC))
    ELSE RDiv(RDiv(discrimination * discrimination, SC)
                * RDiv(probability * (SC - probability), SC), SC)

calculate_information(ability, discrimination, difficulty, guessing) ==
    InformationAt(discrimination, guessing,
                  calculate_probability(ability, discrimination, difficulty, guessing))

----------------------------------------------------------------------------
(* Ability estimation *)

\* The rows the estimator's FOR loop visits: every selection of the session
\* joined with the parameters of its question (indices into the table p_selections)
MleRows(p_cat_session_id, p_selections) ==
    { i \in 1..Len(p_selections) :
        /\ p_selections[i].cat_session_id = p_cat_session_id
        /\ p_selections[i].question_id # NULL
        /\ Val(p_selections[i].question_id) \in DOMAIN question_difficulty_parameters }

\* What the loop reads of a row: discrimination, difficulty, guessing (SC units)
\* and v_correct as IF v_correct takes it (NULL is not TRUE)
MleItem(sel) ==
    << FromCents(question_difficulty_parameters[Val(sel.question_id)].discrimination),
       FromCents(question_difficulty_parameters[Val(sel.question_id)].difficulty),
       FromCents(question_difficulty_parameters[Val(sel.question_id)].guessing),
       sel.was_correct = Some(TRUE) >>

\* IF v_probability < 0.001 ... IF v_probability > 0.999 ...
LimitProbability(p) ==
    IF p < SC \div 1000 THEN SC \div 1000
    ELSE IF p > SC - SC \div 1000 THEN SC - SC \div 1000
    ELSE p

\* the terms with the branches of IF v_correct exchanged
MleTermsAtSwapped(v_discrimination, v_correct, v_probability) ==
    << IF v_correct
       THEN -RDiv(v_discrimination * v_probability, SC - v_probability)
       ELSE RDiv(v_discrimination * (SC - v_probability), v_probability),
       -RDiv(RDiv(v_discrimination * v_discrimination, SC)
               * RDiv(v_probability * (SC - v_probability), SC), SC) >>

\* One row's terms of the first and of the second derivative
MleTermsAt(v_discrimination, v_correct, v_probability) ==
    << IF v_correct
       THEN RDiv(v_discrimination * (SC - v_probability), v_probability)
       ELSE -RDiv(v_discrimination * v_probability, SC - v_probability),
       -RDiv(RDiv(v_discrimination * v_discrimination, SC)
               * RDiv(v_probability * (SC - v_probability), SC), SC) >>

MleTerms(v_ability, item) ==
    MleTermsAt(item[1], item[4],
               LimitProbability(calculate_probability(v_ability, item[1], item[2], item[3])))

AddTerms(x, y) == <<x[1] + y[1], x[2] + y[2]>>

\* v_likelihood_derivative and v_likelihood_second_derivative over items[1..n]
RECURSIVE MleDerivatives(_, _, _)
MleDerivatives(v_ability, items, n) ==
    IF n = 0 THEN <<0, 0>>
    ELSE AddTerms(MleDerivatives(v_ability, items, n - 1), MleTerms(v_ability, items[n]))

\* a sign that is 1 at zero
SignOfNonNegative(x) == IF x >= 0 THEN 1 ELSE -1

\* SIGN(x)
Sign(x) == IF x > 0 THEN 1 ELSE IF x < 0 THEN -1 ELSE 0

v_step == SC \div 10

\* The Newton-Raphson step from the derivatives d = <<L', L''>>.  A quotient L'/L''
\* of 8.0 or more in size leaves [-4, 4] from any v_ability in it, so only its
\* sign is computed
NewtonStep(v_ability, d) ==
    IF d[2] # 0
    THEN IF Abs(d[1]) >= 8 * Abs(d[2])
         THEN v_ability - Sign(d[1]) * Sign(d[2]) * 8 * SC
         ELSE v_ability - Sign(d[2]) * RDiv(d[1] * SC, Abs(d[2]))
    ELSE v_ability + v_step * Sign(d[1])

\* the bounds set at -5.0 and 5.0
BoundAbilityAtFive(v_ability) ==
    IF v_ability < -(5 * SC) THEN -(5 * SC)
    ELSE IF v_ability > 5 * SC THEN 5 * SC
    ELSE v_ability

\* IF v_ability < -4.0 THEN -4.0 ... IF v_ability > 4.0 THEN 4.0
BoundAbility(v_ability) ==
    IF v_ability < -(4 * SC) THEN -(4 * SC)
    ELSE IF v_ability > 4 * SC THEN 4 * SC
    ELSE v_ability

\* One pass of the WHILE body: the new v_ability
MleUpdate(v_ability, items) ==
    BoundAbility(NewtonStep(v_ability, MleDerivatives(v_ability, items, Len(items))))

v_max_iter == 50

\* the loop condition with v_iter <= v_max_iter
MleContinuesOnePassMore(v_ability, v_prev_ability, v_iter) ==
    Abs(v_ability - v_prev_ability) > SC \div 1000 /\ v_iter <= v_max_iter

\* WHILE ABS(v_ability - v_prev_ability) > 0.001 AND v_iter < v_max_iter
MleContinues(v_ability, v_prev_ability, v_iter) ==
    Abs(v_ability - v_prev_ability) > SC \div 1000 /\ v_iter < v_max_iter

RECURSIVE MleLoop(_, _, _, _)
MleLoop(v_ability, v_prev_ability, v_iter, items) ==
    IF MleContinues(v_ability, v_prev_ability, v_iter)
    THEN MleLoop(MleUpdate(v_ability, items), v_ability, v_iter + 1, items)
    ELSE v_ability

\* v_iter when the WHILE loop ends: the passes it has made
RECURSIVE MleIterations(_, _, _, _)
MleIterations(v_ability, v_prev_ability, v_iter, items) ==
    IF MleContinues(v_ability, v_prev_ability, v_iter)
    THEN MleIterations(MleUpdate(v_ability, items), v_ability, v_iter + 1, items)
    ELSE v_iter

RECURSIVE SeqOfSet(_)
SeqOfSet(S) ==
    IF S = {} THEN << >>
    ELSE <<CHOOSE y \in S : \A z \in S : y <= z>>
           \o SeqOfSet(S \ {CHOOSE y \in S : \A z \in S : y <= z})

\* the rows of the FOR loop as a sequence of items
MleItems(p_selections, rows) ==
    [n \in 1..Len(rows) |-> MleItem(p_selections[rows[n]])]

\* estimate_ability_mle on the tables as the caller's transaction sees them;
\* the result is unrounded (SC units)
estimate_ability_mle(p_cat_session_id, p_sessions, p_selections) ==
    MleLoop(FromCents(p_sessions[p_cat_session_id].current_ability), -(999 * SC), 0,
            MleItems(p_selections, SeqOfSet(MleRows(p_cat_session_id, p_selections))))

----------------------------------------------------------------------------
(* Scoring: the score computation of submit_test_answer.                   *)
(* p_user_response is a TEXT[]: NULL or a sequence of strings.             *)

AnswersOf(p_question_id) == {a \in answers : a.question_id = p_question_id}

\* a.id::text = ANY(p_user_response) is true (it is NULL for a NULL array)
EqAny(a, p_user_response) ==
    p_user_response # NULL /\ IdText(a.id) \in Range(Val(p_user_response))
\* a.id::text <> ALL(p_user_response) is true (it is NULL for a NULL array)
NeqAll(a, p_user_response) ==
    p_user_response # NULL /\ IdText(a.id) \notin Range(Val(p_user_response))

\* 'Multiple Choice': is_correct of the answer named by p_user_response[1];
\* NULL when the response is NULL or empty or names no answer of the question
ScoreMultipleChoice(p_question_id, p_user_response) ==
    LET hit == IF p_user_response = NULL \/ Len(Val(p_user_response)) = 0 THEN {}
               ELSE {a \in AnswersOf(p_question_id) :
                       IdText(a.id) = Val(p_user_response)[1]}
        v_is_correct == IF hit = {} THEN NULL ELSE Some((CHOOSE a \in hit : TRUE).is_correct)
    IN [is_correct |-> v_is_correct,
        score |-> IF v_is_correct = Some(TRUE) THEN 100 ELSE 0,
        max_score |-> 100]

\* the partial score without GREATEST(v_score, 0)
ScorePartialUnfloored(p_question_id, p_user_response) ==
    LET as == AnswersOf(p_question_id)
        term(a) == IF EqAny(a, p_user_response) /\ a.is_correct THEN a.partial_credit
                   ELSE IF EqAny(a, p_user_response) /\ ~a.is_correct THEN -a.penalty_value
                   ELSE IF NeqAll(a, p_user_response) /\ a.is_correct THEN -a.partial_credit
                   ELSE 0
        v_score == SumOver([a \in as |-> term(a)], as)
        v_max_score == 100 * Cardinality({a \in as : a.is_correct})
    IN [is_correct |-> Some(v_score = v_max_score),
        score |-> v_score,
        max_score |-> v_max_score]

\* 'Select All That Apply' with use_partial_scoring
ScorePartial(p_question_id, p_user_response) ==
    LET as == AnswersOf(p_question_id)
        term(a) == IF EqAny(a, p_user_response) /\ a.is_correct THEN a.partial_credit
                   ELSE IF EqAny(a, p_user_response) /\ ~a.is_correct THEN -a.penalty_value
                   ELSE IF NeqAll(a, p_user_response) /\ a.is_correct THEN -a.partial_credit
                   ELSE 0
        total == SumOver([a \in as |-> term(a)], as)
        v_score == Max2(total, 0)
        v_max_score == 100 * Cardinality({a \in as : a.is_correct})
    IN [is_correct |-> Some(v_score = v_max_score),
        score |-> v_score,
        max_score |-> v_max_score]

\* every other format: all correct answers selected and no incorrect one
ScoreExact(p_question_id, p_user_response) ==
    LET as == AnswersOf(p_question_id)
        ok == /\ ~(\E a \in as : a.is_correct /\ NeqAll(a, p_user_response))
              /\ ~(\E a \in as : ~a.is_correct /\ EqAny(a, p_user_response))
    IN [is_correct |-> Some(ok),
        score |-> IF ok THEN 100 ELSE 0,
        max_score |-> 100]

\* v_is_correct, v_score, v_max_score of submit_test_answer
ScoreAnswer(p_question_id, p_user_response) ==
    LET v_question_format ==
            IF p_question_id \in QuestionIds
            THEN Some(questions[p_question_id].question_format) ELSE NULL
        v_use_partial_scoring ==
            p_question_id \in QuestionIds /\ questions[p_question_id].use_partial_scoring
    IN IF v_question_format = Some("Multiple Choice")
       THEN ScoreMultipleChoice(p_question_id, p_user_response)
       ELSE IF v_question_format = Some("Select All That Apply") /\ v_use_partial_scoring
       THEN ScorePartial(p_question_id, p_user_response)
       ELSE ScoreExact(p_question_id, p_user_response)

\* the values of the INSERT INTO test_results that come from the call's response
ResultValues(p_question_id, p_user_response) ==
    [user_response |-> p_user_response,
     is_correct |-> ScoreAnswer(p_question_id, p_user_response).is_correct,
     score |-> ScoreAnswer(p_question_id, p_user_response).score,
     max_score |-> ScoreAnswer(p_question_id, p_user_response).max_score]

----------------------------------------------------------------------------
(* Inputs of the calls *)

\* auth.uid(): a signed-in user, or NULL for a caller without identity
Callers == {Some(u) : u \in Users} \cup {NULL}

\* create_cat_test requests: p_topics (NULL or a TEXT[]), p_min_questions,
\* p_max_questions, p_passing_standard (hundredths)
Requests ==
    { [topics |-> NULL,          min |-> 0, max |-> 2, standard |-> 100],
      [topics |-> Some(<<"A">>), min |-> 2, max |-> 5, standard |-> 400],
      [topics |-> NULL,          min |-> 0, max |-> -1, standard |-> 0],
      [topics |-> NULL,          min |-> 0, max |-> 1, standard |-> 50],
      [topics |-> Some(<<"Z">>), min |-> 1, max |-> 3, standard |-> 0] }

\* a question id that is no row of questions
NoSuchQuestion == Cardinality(QuestionIds) + 1
SubmittedQuestionIds == QuestionIds \cup {NoSuchQuestion}

\* p_user_response values submitted for a question
Responses(p_question_id) ==
    IF p_question_id = 1 THEN { Some(<<"11">>), Some(<<>>) }
    ELSE IF p_question_id = 2 THEN { Some(<<"21", "22">>), Some(<<"21", "22", "23">>) }
    ELSE { Some(<<"31">>), Some(<<"31", "32">>) }

----------------------------------------------------------------------------
(* What a call leaves in lastCall *)

NoCall ==
    [op |-> "none", caller |-> NULL, session |-> 0, question |-> NULL, error |-> "",
     status |-> NULL, ability |-> NULL, questions_answered |-> NULL, is_correct |-> NULL,
     question_count |-> NULL, topics |-> NULL, arguments |-> << >>, result |-> NULL]

\* RAISE EXCEPTION, or a constraint violation: the transaction is rolled back
Raise(p_op, p_caller, p_session, p_error) ==
    /\ lastCall' = [NoCall EXCEPT !.op = p_op, !.caller = p_caller, !.session = p_session,
                                  !.error = p_error]
    /\ UNCHANGED <<db, txn>>

\* the connections that submit answers
Clients == {"c1", "c2"}

\* a connection without an open transaction
IdleTransaction ==
    [pc |-> "idle", session |-> 0, question |-> 0, scored |-> NULL, v_status |-> NULL]

NoTransactions == [c \in Clients |-> IdleTransaction]

Init ==
    /\ tests = << >>
    /\ next_test_id = 1
    /\ test_questions = << >>
    /\ test_results = {}
    /\ cat_sessions = << >>
    /\ cat_question_selections = << >>
    /\ user_question_status = {}
    /\ lastCall = NoCall
    /\ txn = NoTransactions
    /\ bank = MainBank

----------------------------------------------------------------------------
(* create_cat_test *)

v_question_pool == 300

\* the user_question_status row of a user and a question, as a set (LEFT JOIN)
StatusRows(p_status, p_user_id, p_question_id) ==
    {r \in p_status : SqlEq(Some(r.user_id), p_user_id) /\ r.question_id = p_question_id}

\* ORDER BY CASE: unseen first, then incorrect, then the rest
PoolTier(p_user_id, p_question_id) ==
    LET rows == StatusRows(user_question_status, p_user_id, p_question_id)
    IN IF rows = {} THEN 1
       ELSE IF (CHOOSE r \in rows : TRUE).status = "incorrect" THEN 2
       ELSE 3

\* the rows the pool query joins and filters, before ORDER BY and LIMIT
PoolCandidates(p_user_id, p_topics) ==
    { q \in QuestionIds :
        /\ q \in DOMAIN question_difficulty_parameters
        /\ \/ p_topics = NULL
           \/ Len(Val(p_topics)) = 0
           \/ /\ questions[q].topic \in Range(Val(p_topics))
              /\ \A r \in StatusRows(user_question_status, p_user_id, q) : r.status # "correct" }

\* every set of rows ORDER BY tier, RANDOM() LIMIT v_question_pool can return:
\* the limit keeps a row only when every row of a lower tier is kept
PoolSets(p_user_id, p_topics) ==
    LET cands == PoolCandidates(p_user_id, p_topics)
        n == Min2(Cardinality(cands), v_question_pool)
    IN { S \in SUBSET cands :
           /\ Cardinality(S) = n
           /\ \A q \in S : \A x \in cands \ S :
                 PoolTier(p_user_id, q) <= PoolTier(p_user_id, x) }

\* tests after INSERT INTO tests ... RETURNING id INTO v_test_id
InsertTest(p_tests, v_test_id, v_user_id) ==
    (v_test_id :> [user_id |-> v_user_id, status |-> "in_progress", question_count |-> 0])
       @@ p_tests

\* the test row left behind
DeleteTestOmitted(p_tests, v_test_id) == p_tests

\* tests after DELETE FROM tests WHERE id = v_test_id
DeleteTest(p_tests, v_test_id) ==
    [t \in DOMAIN p_tests \ {v_test_id} |-> p_tests[t]]

\* a session opened at the passing standard instead of v_initial_ability
NewSessionAtStandard(v_test_id, v_user_id, req, v_question_count) ==
    [test_id |-> v_test_id,
     user_id |-> v_user_id,
     initial_ability |-> 0,
     current_ability |-> req.standard,
     passing_standard |-> req.standard,
     min_questions |-> req.min,
     max_questions |-> Min2(req.max, v_question_count),
     questions_answered |-> 0,
     status |-> "in_progress"]

\* a session that stores p_max_questions as requested, without LEAST
NewSessionRequestedMax(v_test_id, v_user_id, req, v_question_count) ==
    [test_id |-> v_test_id,
     user_id |-> v_user_id,
     initial_ability |-> 0,
     current_ability |-> 0,
     passing_standard |-> req.standard,
     min_questions |-> req.min,
     max_questions |-> req.max,
     questions_answered |-> 0,
     status |-> "in_progress"]

\* the row of INSERT INTO cat_sessions: v_initial_ability is 0.0, questions_answered
\* and status take the column defaults
NewSession(v_test_id, v_user_id, req, v_question_count) ==
    [test_id |-> v_test_id,
     user_id |-> v_user_id,
     initial_ability |-> 0,
     current_ability |-> 0,
     passing_standard |-> req.standard,
     min_questions |-> req.min,
     max_questions |-> Min2(req.max, v_question_count),
     questions_answered |-> 0,
     status |-> "in_progress"]

\* create_cat_test while fewer than p_limit tests have been created
create_cat_test_within(p_limit, caller, req) ==
    /\ next_test_id <= p_limit
    /\ LET v_user_id == caller
           v_test_id == next_test_id
       IN \E v_question_ids \in PoolSets(v_user_id, req.topics) :
            LET v_question_count == Cardinality(v_question_ids)
            IN /\ next_test_id' = next_test_id + 1
               /\ IF v_question_count = 0
                  THEN \* the test row is inserted and deleted again
                       /\ lastCall' = [NoCall EXCEPT !.op = "create_cat_test", !.caller = caller,
                                          !.topics = req.topics,
                                          !.error = "No questions available matching criteria"]
                       /\ tests' = DeleteTest(InsertTest(tests, v_test_id, v_user_id), v_test_id)
                       /\ UNCHANGED <<test_questions, test_results, cat_sessions,
                                      cat_question_selections, user_question_status, bank, txn>>
                  ELSE /\ tests' = [InsertTest(tests, v_test_id, v_user_id) EXCEPT
                                       ![v_test_id].question_count = v_question_count]
                       /\ test_questions' = (v_test_id :> v_question_ids) @@ test_questions
                       /\ cat_sessions' = Append(cat_sessions,
                             NewSession(v_test_id, v_user_id, req, v_question_count))
                       /\ lastCall' = [NoCall EXCEPT !.op = "create_cat_test", !.caller = caller,
                                          !.topics = req.topics,
                                          !.session = Len(cat_sessions) + 1,
                                          !.question_count = Some(v_question_count)]
                       /\ UNCHANGED <<test_results, cat_question_selections,
                                      user_question_status, bank, txn>>

create_cat_test(caller, req) == create_cat_test_within(MaxSessions, caller, req)

----------------------------------------------------------------------------
(* get_next_cat_question *)

\* the status check left out
AlreadyCompleteNever(v_status) == FALSE

\* the status check recognising passed sessions only
AlreadyCompletePassedOnly(v_status) == v_status = "passed"

\* IF v_status <> 'in_progress'
AlreadyComplete(v_status) == v_status # "in_progress"

\* IF v_questions_answered >= v_max_questions
ReachedMaxQuestions(v_questions_answered, v_max_questions) ==
    v_questions_answered >= v_max_questions

\* ELSIF v_questions_answered >= v_min_questions
ReachedMinQuestions(v_questions_answered, v_min_questions) ==
    v_questions_answered >= v_min_questions

\* the distance compared with >= instead of >
ConfidentDecisionInclusive(v_ability, v_passing_standard) ==
    Abs(v_ability - v_passing_standard) >= 100

\* IF ABS(v_ability - v_passing_standard) > 1.0
ConfidentDecision(v_ability, v_passing_standard) ==
    Abs(v_ability - v_passing_standard) > 100

\* the ability compared with > instead of >=
PassFailDecisionStrict(v_ability, v_passing_standard) ==
    IF v_ability > v_passing_standard THEN "passed" ELSE "failed"

\* CASE WHEN v_ability >= v_passing_standard THEN 'passed' ELSE 'failed' END
PassFailDecision(v_ability, v_passing_standard) ==
    IF v_ability >= v_passing_standard THEN "passed" ELSE "failed"

\* the position taken from the count without adding 1
SelectionPositionSameAsCount(v_questions_answered) == v_questions_answered

\* position of the INSERT: v_questions_answered + 1
SelectionPosition(v_questions_answered) == v_questions_answered + 1

\* the count left as it was when a question is served
QuestionsAnsweredNotCounted(questions_answered) == questions_answered

\* SET questions_answered = questions_answered + 1
QuestionsAnsweredAfterServe(questions_answered) == questions_answered + 1

\* v_test_complete after the stopping rule
TestComplete(sess) ==
    IF ReachedMaxQuestions(sess.questions_answered, sess.max_questions) THEN TRUE
    ELSE IF ReachedMinQuestions(sess.questions_answered, sess.min_questions)
    THEN ConfidentDecision(sess.current_ability, sess.passing_standard)
    ELSE FALSE

\* the candidate query without its anti-join on cat_question_selections
UnselectedNotExcluded(p_cat_session_id, v_test_id) == test_questions[v_test_id]

\* questions of the test with no selection in the session (cqs.id IS NULL)
Unselected(p_cat_session_id, v_test_id) ==
    { q \in test_questions[v_test_id] :
        ~\E i \in 1..Len(cat_question_selections) :
            /\ cat_question_selections[i].cat_session_id = p_cat_session_id
            /\ cat_question_selections[i].question_id = Some(q) }

\* LIMIT 50 of the candidate query
ShortlistLimit == 50

\* every row set the candidate query can return: ORDER BY RANDOM() LIMIT 50
Shortlists(p_cat_session_id, v_test_id) ==
    LET cands == { q \in Unselected(p_cat_session_id, v_test_id) :
                     q \in DOMAIN question_difficulty_parameters }
    IN { S \in SUBSET cands : Cardinality(S) = Min2(Cardinality(cands), ShortlistLimit) }

\* v_info of a candidate at v_ability (hundredths), unrounded
InfoAt(v_ability, q) ==
    LET qdp == question_difficulty_parameters[q]
    IN calculate_information(FromCents(v_ability), FromCents(qdp.discrimination),
                             FromCents(qdp.difficulty), FromCents(qdp.guessing))

\* v_max_info after the loop over a shortlist (it starts at 0)
MaxInfo(v_ability, shortlist) ==
    LET infos == {InfoAt(v_ability, q) : q \in shortlist} \cup {0}
    IN CHOOSE m \in infos : \A x \in infos : x <= m

\* the loop keeping any row with information above 0
LoopWinnersAnyPositive(v_ability, shortlist) ==
    { q \in shortlist : InfoAt(v_ability, q) > 0 }

\* the ids the loop can leave in v_next_question_id: the first row, in the random
\* order, whose information exceeds every earlier one and 0
LoopWinners(v_ability, shortlist) ==
    { q \in shortlist : InfoAt(v_ability, q) > 0
                        /\ InfoAt(v_ability, q) = MaxInfo(v_ability, shortlist) }

\* v_next_question_id at the INSERT, as nullable values
NextQuestionIds(p_cat_session_id, v_test_id, v_ability, shortlist) ==
    IF LoopWinners(v_ability, shortlist) # {}
    THEN {Some(q) : q \in LoopWinners(v_ability, shortlist)}
    ELSE IF Unselected(p_cat_session_id, v_test_id) # {}
    THEN {Some(q) : q \in Unselected(p_cat_session_id, v_test_id)}
    ELSE {NULL}

get_next_cat_question(caller, p_cat_session_id) ==
    LET sess == cat_sessions[p_cat_session_id]
        v_ability == sess.current_ability
        v_questions_answered == sess.questions_answered
    IN \/ /\ SqlNeq(caller, sess.user_id)
          /\ Raise("get_next_cat_question", caller, p_cat_session_id,
                   "Not authorized to access this CAT session")
       \/ /\ ~SqlNeq(caller, sess.user_id)
          /\ AlreadyComplete(sess.status)
          /\ lastCall' = [NoCall EXCEPT !.op = "get_next_cat_question", !.caller = caller,
                             !.session = p_cat_session_id,
                             !.status = Some(sess.status),
                             !.ability = Some(v_ability),
                             !.questions_answered = Some(v_questions_answered)]
          /\ UNCHANGED <<db, txn>>
       \/ /\ ~SqlNeq(caller, sess.user_id)
          /\ ~AlreadyComplete(sess.status)
          /\ TestComplete(sess)
          /\ LET v_pass_fail_decision == PassFailDecision(v_ability, sess.passing_standard)
             IN /\ cat_sessions' = [cat_sessions EXCEPT
                                       ![p_cat_session_id].status = v_pass_fail_decision]
                /\ tests' = [tests EXCEPT ![sess.test_id].status = "completed"]
                /\ lastCall' = [NoCall EXCEPT !.op = "get_next_cat_question", !.caller = caller,
                                   !.session = p_cat_session_id,
                                   !.status = Some(v_pass_fail_decision),
                                   !.ability = Some(v_ability),
                                   !.questions_answered = Some(v_questions_answered)]
          /\ UNCHANGED <<next_test_id, test_questions, test_results,
                         cat_question_selections, user_question_status, bank, txn>>
       \/ /\ ~SqlNeq(caller, sess.user_id)
          /\ ~AlreadyComplete(sess.status)
          /\ ~TestComplete(sess)
          /\ \E shortlist \in Shortlists(p_cat_session_id, sess.test_id) :
             \E v_next_question_id \in
                  NextQuestionIds(p_cat_session_id, sess.test_id, v_ability, shortlist) :
                /\ cat_question_selections' = Append(cat_question_selections,
                      [cat_session_id |-> p_cat_session_id,
                       question_id |-> v_next_question_id,
                       position |-> SelectionPosition(v_questions_answered),
                       ability_estimate_before |-> Some(v_ability),
                       ability_estimate_after |-> NULL,
                       information_value |-> Some(ToCents(MaxInfo(v_ability, shortlist))),
                       was_correct |-> NULL])
                /\ cat_sessions' = [cat_sessions EXCEPT
                      ![p_cat_session_id].questions_answered =
                          QuestionsAnsweredAfterServe(sess.questions_answered)]
                /\ lastCall' = [NoCall EXCEPT !.op = "get_next_cat_question", !.caller = caller,
                                   !.session = p_cat_session_id,
                                   !.question = v_next_question_id]
          /\ UNCHANGED <<tests, next_test_id, test_questions, test_results,
                         user_question_status, bank, txn>>

----------------------------------------------------------------------------
(* submit_test_answer and submit_cat_answer *)

\* IF NOT EXISTS (SELECT 1 FROM tests WHERE id = p_test_id AND user_id = v_user_id)
TestBelongsTo(p_test_id, v_user_id) ==
    p_test_id \in DOMAIN tests /\ SqlEq(tests[p_test_id].user_id, v_user_id)

\* test_results without its unique constraint
ResultExistsUnchecked(p_results, p_test_id, p_question_id) == FALSE

\* UNIQUE(test_id, question_id) of test_results rejects the INSERT
ResultExists(p_results, p_test_id, p_question_id) ==
    \E r \in p_results : r.test_id = p_test_id /\ r.question_id = p_question_id

\* the update writing attempt_count = 1 instead of attempt_count + 1
StatusAfterCountReset(v_user_id, p_question_id, v_is_correct) ==
    (user_question_status \ StatusRows(user_question_status, v_user_id, p_question_id))
    \cup { [user_id |-> Val(v_user_id), question_id |-> p_question_id,
            status |-> IF v_is_correct = Some(TRUE) THEN "correct" ELSE "incorrect",
            attempt_count |-> 1] }

\* user_question_status after the insert-or-update of submit_test_answer
StatusAfter(v_user_id, p_question_id, v_is_correct) ==
    LET rows == StatusRows(user_question_status, v_user_id, p_question_id)
        v_status == IF v_is_correct = Some(TRUE) THEN "correct" ELSE "incorrect"
    IN IF rows = {}
       THEN user_question_status \cup
              { [user_id |-> Val(v_user_id), question_id |-> p_question_id,
                 status |-> v_status, attempt_count |-> 1] }
       ELSE (user_question_status \ rows) \cup
              { [r EXCEPT !.status = v_status, !.attempt_count = r.attempt_count + 1] :
                  r \in rows }

\* the UPDATE without its cat_session_id condition
SelectionsOfAnySession(p_cat_session_id, p_question_id) ==
    { i \in 1..Len(cat_question_selections) :
        cat_question_selections[i].question_id = Some(p_question_id) }

\* the rows UPDATE cat_question_selections ... WHERE cat_session_id AND question_id matches
SelectionsOf(p_cat_session_id, p_question_id) ==
    { i \in 1..Len(cat_question_selections) :
        /\ cat_question_selections[i].cat_session_id = p_cat_session_id
        /\ cat_question_selections[i].question_id = Some(p_question_id) }

\* cat_question_selections after UPDATE ... SET was_correct = v_is_correct
MarkedSelections(p_cat_session_id, p_question_id, v_is_correct) ==
    [i \in 1..Len(cat_question_selections) |->
       IF i \in SelectionsOf(p_cat_session_id, p_question_id)
       THEN [cat_question_selections[i] EXCEPT !.was_correct = v_is_correct]
       ELSE cat_question_selections[i]]

\* p_selections after UPDATE ... SET ability_estimate_after = v_ability WHERE id =
\* v_selection_id (the empty set when the first UPDATE returned no row)
EstimatedSelections(p_selections, v_selection_id, v_ability) ==
    [i \in 1..Len(p_selections) |->
       IF i \in v_selection_id
       THEN [p_selections[i] EXCEPT !.ability_estimate_after = Some(ToCents(v_ability))]
       ELSE p_selections[i]]

\* the exception submit_cat_answer ends with, "" when it returns
SubmitError(caller, p_cat_session_id, p_question_id) ==
    LET sess == cat_sessions[p_cat_session_id]
    IN IF SqlNeq(caller, sess.user_id)
       THEN "Not authorized to submit answers for this CAT session"
       ELSE IF ~TestBelongsTo(sess.test_id, caller)
       THEN "Test not found or does not belong to the current user"
       ELSE IF p_question_id \notin QuestionIds
       THEN "foreign key violation: question_id"
       ELSE IF ResultExists(test_results, sess.test_id, p_question_id)
       THEN "unique violation: test_results(test_id, question_id)"
       ELSE IF Cardinality(SelectionsOf(p_cat_session_id, p_question_id)) > 1
       THEN "query returned more than one row"
       ELSE ""

\* the writes after the estimate: ability_estimate_after, current_ability, the
\* result row and the question status
SubmitStore(caller, p_cat_session_id, p_question_id, scored, marked, v_ability) ==
    /\ user_question_status' = StatusAfter(caller, p_question_id, scored.is_correct)
    /\ test_results' = test_results \cup
          { [test_id |-> cat_sessions[p_cat_session_id].test_id, user_id |-> Val(caller),
             question_id |-> p_question_id, user_response |-> scored.user_response,
             is_correct |-> scored.is_correct,
             score |-> scored.score, max_score |-> scored.max_score] }
    /\ cat_question_selections' =
          EstimatedSelections(marked, SelectionsOf(p_cat_session_id, p_question_id), v_ability)
    /\ cat_sessions' = [cat_sessions EXCEPT
          ![p_cat_session_id].current_ability = ToCents(v_ability)]
    /\ lastCall' = [NoCall EXCEPT !.op = "submit_cat_answer", !.caller = caller,
                       !.session = p_cat_session_id,
                       !.question = Some(p_question_id),
                       !.is_correct = scored.is_correct,
                       !.ability = Some(ToCents(v_ability)),
                       !.questions_answered =
                           Some(cat_sessions[p_cat_session_id].questions_answered)]
    /\ UNCHANGED <<tests, next_test_id, test_questions, bank>>

\* was_correct is written before the estimate is taken
SubmitEstimate(caller, p_cat_session_id, p_question_id, scored, marked) ==
    SubmitStore(caller, p_cat_session_id, p_question_id, scored, marked,
                estimate_ability_mle(p_cat_session_id, cat_sessions, marked))

\* the writes of a submit_cat_answer that returns
SubmitWrites(caller, p_cat_session_id, p_question_id, scored) ==
    SubmitEstimate(caller, p_cat_session_id, p_question_id, scored,
                   MarkedSelections(p_cat_session_id, p_question_id, scored.is_correct))

submit_cat_answer(caller, p_cat_session_id, p_question_id, p_user_response) ==
    \/ /\ SubmitError(caller, p_cat_session_id, p_question_id) # ""
       /\ Raise("submit_cat_answer", caller, p_cat_session_id,
                SubmitError(caller, p_cat_session_id, p_question_id))
    \/ /\ SubmitError(caller, p_cat_session_id, p_question_id) = ""
       /\ SubmitWrites(caller, p_cat_session_id, p_question_id,
                       ResultValues(p_question_id, p_user_response))
       /\ UNCHANGED txn

----------------------------------------------------------------------------
(* Specification *)

SessionIds == 1..Len(cat_sessions)

Next ==
    \/ \E u \in TestTakers : \E req \in Requests : create_cat_test(Some(u), req)
    \/ \E caller \in Callers : \E s \in SessionIds : get_next_cat_question(caller, s)
    \/ \E caller \in Callers : \E s \in SessionIds :
       \E q \in SubmittedQuestionIds : \E r \in Responses(q) :
          submit_cat_answer(caller, s, q, r)

Spec == Init /\ [][Next]_vars

----------------------------------------------------------------------------
(* Properties *)

\* the selections of a session, as indexes of cat_question_selections
SessionSelections(s) ==
    { i \in 1..Len(cat_question_selections) : cat_question_selections[i].cat_session_id = s }

\* the selections of a session that hold no answer yet
Unanswered(s) ==
    { i \in SessionSelections(s) : cat_question_selections[i].was_correct = NULL }

\* the question of the most recent unanswered selection of a session, NULL when
\* there is none
InFlight(s) ==
    IF Unanswered(s) = {} THEN NULL
    ELSE cat_question_selections[CHOOSE i \in Unanswered(s) :
                                     \A j \in Unanswered(s) : j <= i].question_id

Terminal(s) == cat_sessions[s].status \in {"passed", "failed"}

\* the step is a call of p_op that returned without an exception
Returned(p_op) == lastCall'.op = p_op /\ lastCall'.error = ""

SessionResults(s) == { r \in test_results : r.test_id = cat_sessions[s].test_id }

Eligible(p_caller, p_topics) ==
    { q \in DOMAIN questions :
        /\ q \in DOMAIN question_difficulty_parameters
        /\ \/ p_topics = NULL
           \/ Val(p_topics) = << >>
           \/ /\ \E k \in 1..Len(Val(p_topics)) : Val(p_topics)[k] = questions[q].topic
              /\ ~\E r \in user_question_status :
                    /\ Some(r.user_id) = p_caller
                    /\ r.question_id = q
                    /\ r.status = "correct" }

\* C14: a create_cat_test that finds no eligible question reports a failure, and
\* a create_cat_test that reports a failure leaves tests, test_questions and
\* cat_sessions exactly as they were.
C14_EmptyPoolLeavesNoTrace ==
    [][ lastCall'.op = "create_cat_test" =>
        /\ Eligible(lastCall'.caller, lastCall'.topics) = {} => lastCall'.error # ""
        /\ lastCall'.error # "" =>
              /\ tests' = tests
              /\ DOMAIN tests' = DOMAIN tests
              /\ test_questions' = test_questions
              /\ cat_sessions' = cat_sessions
              /\ cat_question_selections' = cat_question_selections
      ]_vars

\* C14 witness: a test was requested for a topic that no question has
C14_Witness ==
    /\ lastCall.op = "create_cat_test"
    /\ lastCall.error = "No questions available matching criteria"
    /\ lastCall.topics = Some(<<"Z">>)
    /\ DOMAIN tests = {}
    /\ cat_sessions = << >>

EstimateOverAnswered(s, v_start, p_selections) ==
    ToCents(MleLoop(FromCents(v_start), -(999 * SC), 0,
                    MleItems(p_selections,
                             SeqOfSet({ i \in MleRows(s, p_selections) :
                                          p_selections[i].was_correct # NULL }))))

InAbilityRange(x) == x = NULL \/ (Val(x) >= -400 /\ Val(x) <= 400)

RECURSIVE MleMoves(_, _, _, _, _)
MleMoves(dir, v_ability, v_prev_ability, v_iter, items) ==
    IF Abs(v_ability - v_prev_ability) > SC \div 1000 /\ v_iter < v_max_iter
    THEN /\ \/ dir * (MleUpdate(v_ability, items) - v_ability) > 0
            \/ MleUpdate(v_ability, items) = dir * 4 * SC
         /\ MleMoves(dir, MleUpdate(v_ability, items), v_ability, v_iter + 1, items)
    ELSE TRUE

\* the estimator's run in submit_cat_answer on session s, whose step leads from
\* the unprimed session row to the primed selections, moves in direction dir
EstimateMoves(dir, s) ==
    MleMoves(dir, FromCents(cat_sessions[s].current_ability), -(999 * SC), 0,
             MleItems(cat_question_selections',
                      SeqOfSet(MleRows(s, cat_question_selections'))))

\* every answered selection of session s has the outcome p_correct, and one exists
AllAnswered(s, p_correct, p_selections) ==
    /\ \E i \in 1..Len(p_selections) :
          p_selections[i].cat_session_id = s /\ p_selections[i].was_correct # NULL
    /\ \A i \in 1..Len(p_selections) :
          (p_selections[i].cat_session_id = s /\ p_selections[i].was_correct # NULL)
             => p_selections[i].was_correct = Some(p_correct)

----------------------------------------------------------------------------
(* Scenario: a test over five unseen medium-difficulty questions, each     *)
(* served question answered correctly before the next is requested         *)

\* the parameters initialize_cat_parameters gives a 'Medium' question:
\* discrimination in [0.8, 1.2], difficulty in [-0.25, 0.25], guessing in [0.20, 0.25]
MediumParameters ==
    { [discrimination |-> 80,  difficulty |-> 25,  guessing |-> 20],
      [discrimination |-> 100, difficulty |-> 0,   guessing |-> 20],
      [discrimination |-> 120, difficulty |-> -25, guessing |-> 25] }

\* banks of five multiple-choice questions q with answers 10q+1 (correct) and 10q+2
ScenarioBanks ==
    { [questions |-> [q \in 1..5 |-> [topic |-> "M", question_format |-> "Multiple Choice",
                                      use_partial_scoring |-> FALSE]],
       answers |-> { [id |-> 10 * q + k, question_id |-> q, is_correct |-> (k = 1),
                      partial_credit |-> 0, penalty_value |-> 0] : q \in 1..5, k \in 1..2 },
       question_difficulty_parameters |-> p] : p \in [1..5 -> MediumParameters] }

ScenarioRequest == [topics |-> NULL, min |-> 5, max |-> 5, standard |-> 0]

\* the response that selects exactly the correct answer of a multiple-choice question
CorrectResponse(p_question_id) ==
    Some(<< IdText((CHOOSE a \in AnswersOf(p_question_id) : a.is_correct).id) >>)

InitScenario ==
    /\ tests = << >>
    /\ next_test_id = 1
    /\ test_questions = << >>
    /\ test_results = {}
    /\ cat_sessions = << >>
    /\ cat_question_selections = << >>
    /\ user_question_status = {}
    /\ lastCall = NoCall
    /\ txn = NoTransactions
    /\ bank \in ScenarioBanks

ScenarioCreate == create_cat_test(Some("u1"), ScenarioRequest)

ScenarioGetNext ==
    \E s \in SessionIds :
       /\ Unanswered(s) = {}
       /\ get_next_cat_question(cat_sessions[s].user_id, s)

ScenarioSubmit ==
    \E s \in SessionIds :
       /\ Unanswered(s) # {}
       /\ InFlight(s) # NULL
       /\ submit_cat_answer(cat_sessions[s].user_id, s, Val(InFlight(s)),
                            CorrectResponse(Val(InFlight(s))))

NextScenario == ScenarioCreate \/ ScenarioGetNext \/ ScenarioSubmit

SpecScenario == InitScenario /\ [][NextScenario]_vars

\* the test of session s has five result rows, all correct
FiveCorrect(s) ==
    /\ Cardinality(SessionResults(s)) = 5
    /\ \A r \in SessionResults(s) : r.is_correct = Some(TRUE)

----------------------------------------------------------------------------
(* Scoring: a test over one question whose format, correct options, partial *)
(* credits and penalties vary, answered with every short response          *)

\* values of partial_credit and penalty_value (NUMERIC(3,2), in hundredths)
ScoringCredits == {0, 50, 100}

\* question_format and use_partial_scoring of the question
ScoringFormats ==
    { [question_format |-> "Multiple Choice", use_partial_scoring |-> FALSE],
      [question_format |-> "Multiple Choice", use_partial_scoring |-> TRUE],
      [question_format |-> "Select All That Apply", use_partial_scoring |-> TRUE],
      [question_format |-> "Select All That Apply", use_partial_scoring |-> FALSE] }

\* banks of one question with the answers 1 (correct), 2 (correct or not) and 3
\* (not correct); c1 and c2 are the partial credits of 1 and 2 (the penalty of 2
\* when it is not correct), p3 the penalty of 3
ScoringBanks ==
    { [questions |-> (1 :> [topic |-> "S", question_format |-> f.question_format,
                            use_partial_scoring |-> f.use_partial_scoring]),
       answers |-> { [id |-> 1, question_id |-> 1, is_correct |-> TRUE,
                      partial_credit |-> c1, penalty_value |-> 0],
                     [id |-> 2, question_id |-> 1, is_correct |-> k2,
                      partial_credit |-> c2, penalty_value |-> c2],
                     [id |-> 3, question_id |-> 1, is_correct |-> FALSE,
                      partial_credit |-> 0, penalty_value |-> p3] },
       question_difficulty_parameters |->
           (1 :> [discrimination |-> 100, difficulty |-> 0, guessing |-> 20])] :
      f \in ScoringFormats, k2 \in BOOLEAN,
      c1 \in ScoringCredits, c2 \in ScoringCredits, p3 \in ScoringCredits }

\* the longest response submitted
MaxResponseLen == 3

\* an id that names no answer
NoSuchAnswer == 9

\* p_user_response values: NULL and every array of up to MaxResponseLen ids of
\* the question's answers or of no answer, the empty array and repetitions included
ScoringResponses ==
    {NULL} \cup
    { Some(r) : r \in UNION { [1..n -> {IdText(a.id) : a \in answers}
                                         \cup {IdText(NoSuchAnswer)}] :
                               n \in 0..MaxResponseLen } }

ScoringRequest == [topics |-> NULL, min |-> 1, max |-> 1, standard |-> 0]

InitScoring ==
    /\ tests = << >>
    /\ next_test_id = 1
    /\ test_questions = << >>
    /\ test_results = {}
    /\ cat_sessions = << >>
    /\ cat_question_selections = << >>
    /\ user_question_status = {}
    /\ lastCall = NoCall
    /\ txn = NoTransactions
    /\ bank \in ScoringBanks

ScoringCreate == create_cat_test(Some("u1"), ScoringRequest)

ScoringGetNext ==
    \E s \in SessionIds :
       /\ Unanswered(s) = {}
       /\ get_next_cat_question(cat_sessions[s].user_id, s)

ScoringSubmit ==
    \E s \in SessionIds : \E r \in ScoringResponses :
       /\ InFlight(s) # NULL
       /\ submit_cat_answer(cat_sessions[s].user_id, s, Val(InFlight(s)), r)

NextScoring == ScoringCreate \/ ScoringGetNext \/ ScoringSubmit

SpecScoring == InitScoring /\ [][NextScoring]_vars

\* the ids a response holds
Selected(p_user_response) ==
    IF p_user_response = NULL THEN {} ELSE Range(Val(p_user_response))

\* the ids of the correct answers of a question, as the text a response holds
CorrectIds(p_question_id) ==
    { IdText(a.id) : a \in {x \in AnswersOf(p_question_id) : x.is_correct} }

PartiallyScored(p_question_id) ==
    /\ questions[p_question_id].question_format = "Select All That Apply"
    /\ questions[p_question_id].use_partial_scoring

ExactlyScored(p_question_id) ==
    /\ questions[p_question_id].question_format = "Select All That Apply"
    /\ ~questions[p_question_id].use_partial_scoring

----------------------------------------------------------------------------
(* Selection: a test over three questions whose parameters vary, equal     *)
(* parameters and questions without information included                   *)

\* rows of question_difficulty_parameters; a question of discrimination 0 has
\* information 0 at every ability
SelectionParameters ==
    { [discrimination |-> 100, difficulty |-> 0,    guessing |-> 20],
      [discrimination |-> 120, difficulty |-> 50,   guessing |-> 25],
      [discrimination |-> 80,  difficulty |-> -100, guessing |-> 0],
      [discrimination |-> 0,   difficulty |-> 0,    guessing |-> 20] }

\* banks of three multiple-choice questions q with answers 10q+1 (correct) and 10q+2
SelectionBanks ==
    { [questions |-> [q \in 1..3 |-> [topic |-> "M", question_format |-> "Multiple Choice",
                                      use_partial_scoring |-> FALSE]],
       answers |-> { [id |-> 10 * q + k, question_id |-> q, is_correct |-> (k = 1),
                      partial_credit |-> 0, penalty_value |-> 0] : q \in 1..3, k \in 1..2 },
       question_difficulty_parameters |-> p] : p \in [1..3 -> SelectionParameters] }

SelectionRequest == [topics |-> NULL, min |-> 3, max |-> 3, standard |-> 0]

InitSelection ==
    /\ tests = << >>
    /\ next_test_id = 1
    /\ test_questions = << >>
    /\ test_results = {}
    /\ cat_sessions = << >>
    /\ cat_question_selections = << >>
    /\ user_question_status = {}
    /\ lastCall = NoCall
    /\ txn = NoTransactions
    /\ bank \in SelectionBanks

SelectionCreate == create_cat_test(Some("u1"), SelectionRequest)

SelectionGetNext ==
    \E s \in SessionIds :
       /\ Unanswered(s) = {}
       /\ get_next_cat_question(cat_sessions[s].user_id, s)

\* the served question answered with one of its two options
SelectionSubmit ==
    \E s \in SessionIds : \E a \in answers :
       /\ InFlight(s) = Some(a.question_id)
       /\ submit_cat_answer(cat_sessions[s].user_id, s, a.question_id, Some(<<IdText(a.id)>>))

NextSelection == SelectionCreate \/ SelectionGetNext \/ SelectionSubmit

SpecSelection == InitSelection /\ [][NextSelection]_vars

\* the selection a get_next_cat_question step appends
Served == cat_question_selections'[Len(cat_question_selections')]

\* question q served from the examined rows S at ability v_ability: q has the
\* greatest information of S when that is above 0, and is any unserved question
\* of the pool, recorded with information 0, when no row of S has information
ServedFrom(S, s, v_ability, q) ==
    IF MaxInfo(v_ability, S) > 0
    THEN /\ q \in S
         /\ \A x \in S : InfoAt(v_ability, x) <= InfoAt(v_ability, q)
         /\ Served.information_value = Some(ToCents(InfoAt(v_ability, q)))
    ELSE /\ q \in Unselected(s, cat_sessions[s].test_id)
         /\ Served.information_value = Some(0)

----------------------------------------------------------------------------
(* Parameters: a bank where questions may have no row in                   *)
(* question_difficulty_parameters, and initialize_cat_parameters           *)

\* the users whose raw_user_meta_data->>'role' is 'admin'
Admins == {"u2"}

\* v_difficulty of CASE v_question.difficulty, in hundredths
LabelDifficulty(label) ==
    IF label = "Easy" THEN -100 ELSE IF label = "Hard" THEN 100 ELSE 0

\* rows the INSERT of initialize_cat_parameters can write for a label: the ends
\* of the ranges of difficulty +- 0.25, discrimination 0.8 to 1.2, guessing
\* 0.20 to 0.25
DefaultParameters(label) ==
    { [discrimination |-> 80,  difficulty |-> LabelDifficulty(label) - 25, guessing |-> 20],
      [discrimination |-> 120, difficulty |-> LabelDifficulty(label) + 25, guessing |-> 25] }

\* every table question_difficulty_parameters can be after the loop over the
\* questions without a row
InitializedParameters ==
    { p \in [QuestionIds ->
               {question_difficulty_parameters[q] : q \in DOMAIN question_difficulty_parameters}
                  \cup UNION {DefaultParameters(questions[q].difficulty) : q \in QuestionIds}] :
        \A q \in QuestionIds :
           IF q \in DOMAIN question_difficulty_parameters
           THEN p[q] = question_difficulty_parameters[q]
           ELSE p[q] \in DefaultParameters(questions[q].difficulty) }

initialize_cat_parameters(caller) ==
    \/ /\ ~(caller # NULL /\ Val(caller) \in Admins)
       /\ Raise("initialize_cat_parameters", caller, 0,
                "Only administrators can initialize CAT parameters")
    \/ /\ caller # NULL /\ Val(caller) \in Admins
       /\ \E p \in InitializedParameters :
             bank' = [bank EXCEPT !.question_difficulty_parameters = p]
       /\ lastCall' = [NoCall EXCEPT !.op = "initialize_cat_parameters", !.caller = caller]
       /\ UNCHANGED <<tests, next_test_id, test_questions, test_results, cat_sessions,
                      cat_question_selections, user_question_status, txn>>

\* banks of three multiple-choice questions labelled Easy, Medium and Hard, each
\* with or without a parameters row
ParameterBanks ==
    { [questions |-> [q \in 1..3 |->
                        [topic |-> "M", question_format |-> "Multiple Choice",
                         use_partial_scoring |-> FALSE,
                         difficulty |-> <<"Easy", "Medium", "Hard">>[q]]],
       answers |-> { [id |-> 10 * q + k, question_id |-> q, is_correct |-> (k = 1),
                      partial_credit |-> 0, penalty_value |-> 0] : q \in 1..3, k \in 1..2 },
       question_difficulty_parameters |->
           [q \in D |-> [discrimination |-> 100, difficulty |-> 0, guessing |-> 20]]] :
      D \in SUBSET (1..3) }

ParameterRequests ==
    { [topics |-> NULL,          min |-> 1, max |-> 3, standard |-> 0],
      [topics |-> Some(<<"M">>), min |-> 1, max |-> 3, standard |-> 0] }

InitParameters ==
    /\ tests = << >>
    /\ next_test_id = 1
    /\ test_questions = << >>
    /\ test_results = {}
    /\ cat_sessions = << >>
    /\ cat_question_selections = << >>
    /\ user_question_status = {}
    /\ lastCall = NoCall
    /\ txn = NoTransactions
    /\ bank \in ParameterBanks

ParametersInitialize == \E caller \in Callers : initialize_cat_parameters(caller)

ParametersCreate == \E req \in ParameterRequests : create_cat_test(Some("u1"), req)

ParametersGetNext ==
    \E s \in SessionIds :
       /\ Unanswered(s) = {}
       /\ get_next_cat_question(cat_sessions[s].user_id, s)

ParametersSubmit ==
    \E s \in SessionIds : \E a \in answers :
       /\ InFlight(s) = Some(a.question_id)
       /\ submit_cat_answer(cat_sessions[s].user_id, s, a.question_id, Some(<<IdText(a.id)>>))

NextParameters ==
    ParametersInitialize \/ ParametersCreate \/ ParametersGetNext \/ ParametersSubmit

SpecParameters == InitParameters /\ [][NextParameters]_vars

\* the questions that match the criteria of a create_cat_test: the topic filter
\* and, with it, no 'correct' status of the caller
MatchesCriteria(p_caller, p_topics) ==
    { q \in DOMAIN questions :
        \/ p_topics = NULL
        \/ Val(p_topics) = << >>
        \/ /\ \E k \in 1..Len(Val(p_topics)) : Val(p_topics)[k] = questions[q].topic
           /\ ~\E r \in user_question_status :
                 /\ Some(r.user_id) = p_caller
                 /\ r.question_id = q
                 /\ r.status = "correct" }

\* C26: a create_cat_test puts every question that matches its criteria into the
\* pool of the new test, whether or not the question had a row in
\* question_difficulty_parameters before the call (the pool limit of 300 is not
\* reached).
C26_NoQuestionLeftOutForParameters ==
    [][ lastCall'.op = "create_cat_test" =>
          \A q \in MatchesCriteria(lastCall'.caller, lastCall'.topics) :
             /\ lastCall'.error = ""
             /\ q \in test_questions'[cat_sessions'[lastCall'.session].test_id]
      ]_vars

----------------------------------------------------------------------------
(* Concurrent submissions: submit_cat_answer as a READ COMMITTED           *)
(* transaction of four steps, run by two connections of the session's owner *)

\* the transactions other than c's that are open on the same user and question
\* and have reached one of the steps p_pcs
OthersAt(c, p_pcs) ==
    { d \in Clients \ {c} :
        /\ txn[d].pc \in p_pcs
        /\ txn[d].question = txn[c].question
        /\ cat_sessions[txn[d].session].user_id = cat_sessions[txn[c].session].user_id }

\* ROLLBACK after an exception: the connection is idle again, nothing is written
Abort(c, p_error) ==
    /\ txn' = [txn EXCEPT ![c] = IdleTransaction]
    /\ lastCall' = [NoCall EXCEPT !.op = "submit_cat_answer",
                                  !.caller = cat_sessions[txn[c].session].user_id,
                                  !.session = txn[c].session, !.error = p_error]
    /\ UNCHANGED db

\* the reads up to SELECT status INTO v_status: the session row, the two
\* ownership checks, the question and its answers
BeginSubmit(c, p_cat_session_id, p_question_id, p_user_response) ==
    /\ txn[c].pc = "idle"
    /\ SubmitError(cat_sessions[p_cat_session_id].user_id, p_cat_session_id, p_question_id)
          \in {"", "unique violation: test_results(test_id, question_id)"}
    /\ txn' = [txn EXCEPT ![c] =
                 [pc |-> "status", session |-> p_cat_session_id, question |-> p_question_id,
                  scored |-> Some(ResultValues(p_question_id, p_user_response)),
                  v_status |-> { r.status : r \in StatusRows(user_question_status,
                                     cat_sessions[p_cat_session_id].user_id, p_question_id) }]]
    /\ UNCHANGED <<db, lastCall>>

\* INSERT INTO or UPDATE user_question_status: it waits while another open
\* transaction has written the row; the INSERT meets UNIQUE(user_id, question_id)
\* when the row was committed after the SELECT
WriteStatus(c) ==
    /\ txn[c].pc = "status"
    /\ OthersAt(c, {"result", "estimate"}) = {}
    /\ IF /\ txn[c].v_status = NULL
          /\ StatusRows(user_question_status, cat_sessions[txn[c].session].user_id,
                        txn[c].question) # {}
       THEN Abort(c, "unique violation: user_question_status(user_id, question_id)")
       ELSE /\ txn' = [txn EXCEPT ![c].pc = "result"]
            /\ UNCHANGED <<db, lastCall>>

\* the INSERT INTO test_results without the unique constraint
InsertResultUnconstrained(c) ==
    /\ txn[c].pc = "result"
    /\ txn' = [txn EXCEPT ![c].pc = "estimate"]
    /\ UNCHANGED <<db, lastCall>>

\* INSERT INTO test_results: it waits while another open transaction has
\* inserted the key, and meets UNIQUE(test_id, question_id) on a committed row
InsertResult(c) ==
    /\ txn[c].pc = "result"
    /\ ~\E d \in Clients \ {c} :
          /\ txn[d].pc = "estimate"
          /\ txn[d].question = txn[c].question
          /\ cat_sessions[txn[d].session].test_id = cat_sessions[txn[c].session].test_id
    /\ IF ResultExists(test_results, cat_sessions[txn[c].session].test_id, txn[c].question)
       THEN Abort(c, "unique violation: test_results(test_id, question_id)")
       ELSE /\ txn' = [txn EXCEPT ![c].pc = "estimate"]
            /\ UNCHANGED <<db, lastCall>>

\* the UPDATEs of cat_question_selections and cat_sessions around the estimate,
\* RETURN and COMMIT: the writes of the transaction become visible together
FinishSubmit(c) ==
    /\ txn[c].pc = "estimate"
    /\ SubmitWrites(cat_sessions[txn[c].session].user_id, txn[c].session, txn[c].question,
                    Val(txn[c].scored))
    /\ txn' = [txn EXCEPT ![c] = IdleTransaction]

\* a user_question_status row left by an earlier test of the user that has
\* since been deleted
EarlierStatus ==
    { [user_id |-> "u1", question_id |-> 1, status |-> "incorrect", attempt_count |-> 1] }

ConcurrentRequest == [topics |-> NULL, min |-> 0, max |-> 2, standard |-> 100]

InitConcurrent ==
    /\ tests = << >>
    /\ next_test_id = 1
    /\ test_questions = << >>
    /\ test_results = {}
    /\ cat_sessions = << >>
    /\ cat_question_selections = << >>
    /\ user_question_status \in {{}, EarlierStatus}
    /\ lastCall = NoCall
    /\ txn = NoTransactions
    /\ bank = MainBank

ConcurrentCreate == create_cat_test(Some("u1"), ConcurrentRequest)

ConcurrentGetNext ==
    \E s \in SessionIds : get_next_cat_question(cat_sessions[s].user_id, s)

\* a connection submits an answer for a served question of a session; the open
\* transactions are submissions for the same session and question
ConcurrentBegin ==
    \E c \in Clients : \E s \in SessionIds : \E i \in SessionSelections(s) :
    \E r \in Responses(Val(cat_question_selections[i].question_id)) :
       /\ \A d \in Clients :
             txn[d].pc # "idle" =>
                /\ txn[d].session = s
                /\ Some(txn[d].question) = cat_question_selections[i].question_id
       /\ BeginSubmit(c, s, Val(cat_question_selections[i].question_id), r)

NextConcurrent ==
    \/ ConcurrentCreate
    \/ ConcurrentGetNext
    \/ ConcurrentBegin
    \/ \E c \in Clients : WriteStatus(c)
    \/ \E c \in Clients : InsertResult(c)
    \/ \E c \in Clients : FinishSubmit(c)

SpecConcurrent == InitConcurrent /\ [][NextConcurrent]_vars

\* the rows of test_results for a session's test and a question
ResultsFor(p_results, s, q) ==
    { r \in p_results : r.test_id = cat_sessions[s].test_id /\ r.question_id = q }

\* the step commits the transaction of connection c
Commits(c) == txn[c].pc = "estimate" /\ txn'[c].pc = "idle"

----------------------------------------------------------------------------
(* Abandoning a session: there is no stored procedure for it; the owner    *)
(* updates the row of cat_sessions under the row-level-security policy     *)
(* "Users can update their own CAT sessions"                               *)

\* USING (auth.uid() = user_id): the rows of cat_sessions the caller's UPDATE sees
UpdatableSessions(caller) ==
    { s \in SessionIds : SqlEq(caller, cat_sessions[s].user_id) }

\* UPDATE cat_sessions SET status = 'abandoned' WHERE id = p_cat_session_id
\* RETURNING status: a row the policy hides is not updated and nothing is returned
abandon(caller, p_cat_session_id) ==
    /\ cat_sessions' =
          [s \in SessionIds |->
             IF s = p_cat_session_id /\ s \in UpdatableSessions(caller)
             THEN [cat_sessions[s] EXCEPT !.status = "abandoned"]
             ELSE cat_sessions[s]]
    /\ lastCall' = [NoCall EXCEPT !.op = "abandon", !.caller = caller,
                       !.session = p_cat_session_id,
                       !.status = IF p_cat_session_id \in UpdatableSessions(caller)
                                  THEN Some("abandoned") ELSE NULL]
    /\ UNCHANGED <<tests, next_test_id, test_questions, test_results,
                   cat_question_selections, user_question_status, bank, txn>>

AbandonRequest == [topics |-> NULL, min |-> 0, max |-> 2, standard |-> 100]

AbandonCreate == create_cat_test(Some("u1"), AbandonRequest)

AbandonGetNext ==
    \E s \in SessionIds : get_next_cat_question(cat_sessions[s].user_id, s)

AbandonSubmit ==
    \E s \in SessionIds : \E q \in QuestionIds : \E r \in Responses(q) :
       submit_cat_answer(cat_sessions[s].user_id, s, q, r)

NextAbandon ==
    \/ AbandonCreate
    \/ AbandonGetNext
    \/ AbandonSubmit
    \/ \E caller \in Callers : \E s \in SessionIds : abandon(caller, s)

SpecAbandon == Init /\ [][NextAbandon]_vars

----------------------------------------------------------------------------
(* Two sessions of one user over the same questions *)

TwoSessions == 2

IndependentRequest == [topics |-> Some(<<"A">>), min |-> 0, max |-> 1, standard |-> 100]

IndependentCreate == create_cat_test_within(TwoSessions, Some("u1"), IndependentRequest)

IndependentGetNext ==
    \E s \in SessionIds : get_next_cat_question(cat_sessions[s].user_id, s)

\* the questions of the tests created so far
TestQuestions == UNION { test_questions[t] : t \in DOMAIN test_questions }

\* an answer to a question of a created test, submitted to either session
IndependentSubmit ==
    \E s \in SessionIds : \E q \in TestQuestions : \E r \in Responses(q) :
       submit_cat_answer(cat_sessions[s].user_id, s, q, r)

NextIndependent ==
    \/ IndependentCreate
    \/ IndependentGetNext
    \/ IndependentSubmit

SpecIndependent == Init /\ [][NextIndependent]_vars

\* the Selection log of session s: its rows of p_selections, in order
SelectionLog(p_selections, s) ==
    SelectSeq(p_selections, LAMBDA row : row.cat_session_id = s)

----------------------------------------------------------------------------
(* calculate_probability called on its own: SELECT calculate_probability(...) *)

\* abilities from -4.0 to 4.0 in halves and three values 0.0001 apart (SC units)
ProbeAbilities == { 5000 * k : k \in -8..8 } \cup {1, 2, 14999, 15001}
\* discrimination > 0, from 0.01 to 10.0
ProbeDiscriminations == {100, 5000, 10000, 25000, 100000}
ProbeDifficulties == {-30000, 0, 5000, 30000}
\* guessing in [0, 1)
ProbeGuessings == {0, 2000, 2500, 9900}

ProbabilityCall ==
    \E ability \in ProbeAbilities : \E discrimination \in ProbeDiscriminations :
    \E difficulty \in ProbeDifficulties : \E guessing \in ProbeGuessings :
       /\ lastCall' = [NoCall EXCEPT
             !.op = "calculate_probability",
             !.arguments = <<ability, discrimination, difficulty, guessing>>,
             !.result = Some(calculate_probability(ability, discrimination,
                                                   difficulty, guessing))]
       /\ UNCHANGED <<db, txn>>

NextProbability == ProbabilityCall

SpecProbability == Init /\ [][NextProbability]_vars

\* C30: for every ability, discrimination > 0, difficulty and guessing in
\* [0, 1), calculate_probability returns a value from guessing to 1, and of two
\* calls with the same item the one with the larger ability does not return
\* the smaller value; this includes the calls whose logit lies beyond the
\* clamp at -35 and 35.
C30_ProbabilityBoundedMonotone ==
    [][ lastCall'.op = "calculate_probability" =>
          /\ Val(lastCall'.result) >= lastCall'.arguments[4]
          /\ Val(lastCall'.result) <= SC
          /\ ( /\ lastCall.op = "calculate_probability"
               /\ lastCall.arguments[2] = lastCall'.arguments[2]
               /\ lastCall.arguments[3] = lastCall'.arguments[3]
               /\ lastCall.arguments[4] = lastCall'.arguments[4]
               /\ lastCall.arguments[1] <= lastCall'.arguments[1] )
             => Val(lastCall.result) <= Val(lastCall'.result)
      ]_vars

\* a call whose logit 10.0 * (4.0 - (-3.0)) = 70 lies beyond the clamp has
\* returned 1, with guessing 0.2
C30_Witness ==
    /\ lastCall.op = "calculate_probability"
    /\ lastCall.arguments = <<40000, 100000, -30000, 2000>>
    /\ MulSC(lastCall.arguments[2], lastCall.arguments[1] - lastCall.arguments[3]) > 35 * SC
    /\ lastCall.result = Some(SC)

----------------------------------------------------------------------------
(* Properties of the selections, the pool and the end of a session *)

\* the questions of the selections of session s are pairwise distinct and are
\* questions of the session's test
ServedOnceFromPool(p_sessions, p_selections, p_test_questions, s) ==
    /\ \A i, j \in 1..Len(p_selections) :
          ( /\ p_selections[i].cat_session_id = s
            /\ p_selections[j].cat_session_id = s
            /\ p_selections[i].question_id = p_selections[j].question_id ) => i = j
    /\ \A i \in 1..Len(p_selections) :
          p_selections[i].cat_session_id = s =>
             /\ p_selections[i].question_id # NULL
             /\ Val(p_selections[i].question_id) \in p_test_questions[p_sessions[s].test_id]

----------------------------------------------------------------------------
(* Interleaved get_next_cat_question: the procedure as a READ COMMITTED    *)
(* transaction whose statements run one at a time, on two connections of   *)
(* the session's owner.  Nothing locks the session row before the final    *)
(* UPDATE, and cat_question_selections has no unique constraint.           *)

\* SELECT ... INTO ... FROM cat_sessions and the checks on what was read: a
\* session that has ended is answered at once, otherwise the transaction goes
\* on to end the session or to look for a question
ReadSession(c, p_cat_session_id) ==
    LET sess == cat_sessions[p_cat_session_id]
    IN /\ txn[c].pc = "idle"
       /\ IF AlreadyComplete(sess.status)
          THEN /\ lastCall' = [NoCall EXCEPT !.op = "get_next_cat_question",
                                  !.caller = sess.user_id,
                                  !.session = p_cat_session_id,
                                  !.status = Some(sess.status),
                                  !.ability = Some(sess.current_ability),
                                  !.questions_answered = Some(sess.questions_answered)]
               /\ UNCHANGED <<db, txn>>
          ELSE /\ txn' = [txn EXCEPT ![c] =
                            [pc |-> IF TestComplete(sess) THEN "complete" ELSE "select",
                             session |-> p_cat_session_id,
                             question |-> NULL,
                             v_ability |-> sess.current_ability,
                             v_questions_answered |-> sess.questions_answered,
                             v_passing_standard |-> sess.passing_standard,
                             v_max_info |-> 0]]
               /\ UNCHANGED <<db, lastCall>>

\* IF v_test_complete: the two UPDATEs, RETURN and COMMIT
CompleteTest(c) ==
    /\ txn[c].pc = "complete"
    /\ cat_sessions' = [cat_sessions EXCEPT ![txn[c].session].status =
                           PassFailDecision(txn[c].v_ability, txn[c].v_passing_standard)]
    /\ tests' = [tests EXCEPT ![cat_sessions[txn[c].session].test_id].status = "completed"]
    /\ lastCall' = [NoCall EXCEPT !.op = "get_next_cat_question",
                       !.caller = cat_sessions[txn[c].session].user_id,
                       !.session = txn[c].session,
                       !.status = Some(PassFailDecision(txn[c].v_ability,
                                                        txn[c].v_passing_standard)),
                       !.ability = Some(txn[c].v_ability),
                       !.questions_answered = Some(txn[c].v_questions_answered)]
    /\ txn' = [txn EXCEPT ![c] = IdleTransaction]
    /\ UNCHANGED <<next_test_id, test_questions, test_results,
                   cat_question_selections, user_question_status, bank>>

\* the candidate query, its loop and the fallback query: they see the
\* selections committed so far
SelectQuestion(c) ==
    /\ txn[c].pc = "select"
    /\ \E shortlist \in Shortlists(txn[c].session, cat_sessions[txn[c].session].test_id) :
       \E v_next_question_id \in
            NextQuestionIds(txn[c].session, cat_sessions[txn[c].session].test_id,
                            txn[c].v_ability, shortlist) :
          txn' = [txn EXCEPT ![c].pc = "record",
                             ![c].question = v_next_question_id,
                             ![c].v_max_info = MaxInfo(txn[c].v_ability, shortlist)]
    /\ UNCHANGED <<db, lastCall>>

\* INSERT INTO cat_question_selections with the position read at the start,
\* UPDATE cat_sessions SET questions_answered = questions_answered + 1 on the
\* row as committed (the UPDATE waits for a writer of the row), RETURN and COMMIT
RecordSelection(c) ==
    /\ txn[c].pc = "record"
    /\ cat_question_selections' = Append(cat_question_selections,
          [cat_session_id |-> txn[c].session,
           question_id |-> txn[c].question,
           position |-> SelectionPosition(txn[c].v_questions_answered),
           ability_estimate_before |-> Some(txn[c].v_ability),
           ability_estimate_after |-> NULL,
           information_value |-> Some(ToCents(txn[c].v_max_info)),
           was_correct |-> NULL])
    /\ cat_sessions' = [cat_sessions EXCEPT
          ![txn[c].session].questions_answered =
              QuestionsAnsweredAfterServe(cat_sessions[txn[c].session].questions_answered)]
    /\ lastCall' = [NoCall EXCEPT !.op = "get_next_cat_question",
                       !.caller = cat_sessions[txn[c].session].user_id,
                       !.session = txn[c].session,
                       !.question = txn[c].question]
    /\ txn' = [txn EXCEPT ![c] = IdleTransaction]
    /\ UNCHANGED <<tests, next_test_id, test_questions, test_results,
                   user_question_status, bank>>

InterleavedRequest == [topics |-> Some(<<"A">>), min |-> 0, max |-> 1, standard |-> 100]

InterleavedCreate == create_cat_test(Some("u1"), InterleavedRequest)

InterleavedSubmit ==
    \E s \in SessionIds : \E i \in SessionSelections(s) :
    \E r \in Responses(Val(cat_question_selections[i].question_id)) :
       submit_cat_answer(cat_sessions[s].user_id, s,
                         Val(cat_question_selections[i].question_id), r)

NextInterleaved ==
    \/ InterleavedCreate
    \/ \E c \in Clients : \E s \in SessionIds : ReadSession(c, s)
    \/ \E c \in Clients : CompleteTest(c)
    \/ \E c \in Clients : SelectQuestion(c)
    \/ \E c \in Clients : RecordSelection(c)
    \/ InterleavedSubmit

SpecInterleaved == Init /\ [][NextInterleaved]_vars

----------------------------------------------------------------------------
(* A client that alternates get_next_cat_question and submit_cat_answer on *)
(* a session that is in_progress                                           *)

\* requests with a minimum below, at and above the pool of three questions and
\* a maximum that is negative, within the pool or beyond it
AlternatingRequests ==
    [topics : {NULL}, min : {0, 2, 3}, max : {-1, 1, 3, 5}, standard : {0, 50}]

AlternatingCreate == \E req \in AlternatingRequests : create_cat_test(Some("u1"), req)

\* the next question is asked for after the session was created or an answer
\* was submitted
AlternatingGetNext ==
    \E s \in SessionIds :
       /\ cat_sessions[s].status = "in_progress"
       /\ lastCall.op \in {"create_cat_test", "submit_cat_answer"}
       /\ lastCall.session = s
       /\ get_next_cat_question(cat_sessions[s].user_id, s)

\* the question just served is answered, with any response
AlternatingSubmit ==
    \E s \in SessionIds :
       /\ cat_sessions[s].status = "in_progress"
       /\ lastCall.op = "get_next_cat_question"
       /\ lastCall.session = s
       /\ lastCall.question # NULL
       /\ \E r \in Responses(Val(lastCall.question)) :
             submit_cat_answer(cat_sessions[s].user_id, s, Val(lastCall.question), r)

NextAlternating == AlternatingCreate \/ AlternatingGetNext \/ AlternatingSubmit

SpecAlternating == Init /\ [][NextAlternating]_vars

\* the calls made on a session by an alternating client: the questions served
\* plus the answers accepted
CallsMade(p_selections, s) ==
    Cardinality({ i \in 1..Len(p_selections) : p_selections[i].cat_session_id = s })
    + Cardinality({ i \in 1..Len(p_selections) :
                      /\ p_selections[i].cat_session_id = s
                      /\ p_selections[i].ability_estimate_after # NULL })

----------------------------------------------------------------------------
(* The passes of the estimator *)

\* the passes as the claim describes them, from the k-th on: a first pass
\* whatever the starting ability, further passes while the last two estimates
\* differ by more than 0.001, and never more than 50; the result is the number
\* of passes and the estimate of the last one
RECURSIVE DescribedPasses(_, _, _, _)
DescribedPasses(v_ability, v_prev_ability, k, items) ==
    IF k >= 1 /\ (Abs(v_ability - v_prev_ability) <= SC \div 1000 \/ k >= 50)
    THEN <<k, v_ability>>
    ELSE DescribedPasses(MleUpdate(v_ability, items), v_ability, k + 1, items)

\* the history the estimator reads in the submit_cat_answer step on session s
StepItems(s) ==
    MleItems(cat_question_selections', SeqOfSet(MleRows(s, cat_question_selections')))

\* the passes the estimator makes in the submit_cat_answer step on session s
StepIterations(s) ==
    MleIterations(FromCents(cat_sessions[s].current_ability), -(999 * SC), 0, StepItems(s))

\* the passes described, for the submit_cat_answer step on session s
StepDescribed(s) ==
    DescribedPasses(FromCents(cat_sessions[s].current_ability),
                    FromCents(cat_sessions[s].current_ability), 0, StepItems(s))

\* the loop made the passes described (p_described) and returned the last estimate
AsDescribed(p_described, p_iterations, p_returned) ==
    /\ p_described[1] >= 1 /\ p_described[1] <= 50
    /\ p_iterations = p_described[1]
    /\ p_returned = Some(ToCents(p_described[2]))

----------------------------------------------------------------------------
(* The result log and the question status *)

----------------------------------------------------------------------------
(* Status, ability and the answers behind a decision *)

----------------------------------------------------------------------------
(* The pool never runs out *)

====
